---- MODULE Spec2Model ----
(***************************************************************************)
(* A model of the schedule bot in bot.py: a Telegram bot that keeps, per   *)
(* user, a choice between two alternating weeks and answers /rasp with the *)
(* lessons of one day of the chosen week.                                  *)
(*                                                                         *)
(* Text is modelled as Python models it: a str is the sequence of its      *)
(* Unicode code points, so that strip(), lower(), comparison, formatting   *)
(* and joining are computed and not assumed.  Python values that may be    *)
(* None are tagged records (PyNone, PyInt, PyStr).                         *)
(***************************************************************************)
EXTENDS Integers, Sequences, FiniteSets

VARIABLES
    env,        \* os.environ's TELEGRAM_BOT_TOKEN: PyNone (not set) or PyStr
    pc,         \* where main() is: "main", "built", "polling", "returned"
    handlers,   \* the handlers added to the application, in order
    stdout,     \* the lines main() has printed
    schedule,   \* schedule_data's table: week -> day -> <<time, subject>> pairs
    user_data,  \* context.user_data of each user: a dict with at most the key "week"
    today,      \* datetime.now().weekday(): Monday = 0 .. Sunday = 6
    update,     \* the update handled last (UNone before the first one)
    sent,       \* the Telegram calls the handler of that update made, in order
    lastPress,  \* history: callback data of each user's last handled button press
    call,       \* a direct call of one of the pure functions
    result      \* what that call returned ("pending" before it returns)

vars == <<env, pc, handlers, stdout, schedule, user_data, today, update, sent,
          lastPress, call, result>>

(***************************************************************************)
(* Bounds of the model.                                                    *)
(***************************************************************************)
\* how many users talk to the bot
NumUsers == 2
\* the longest argument handed to parse_day_arg, in characters
MaxArgLen == 4
\* the most lessons a day of the store holds
MaxLessons == 2

Users == 1..NumUsers

(***************************************************************************)
(* Python values.                                                          *)
(***************************************************************************)
PyNone == [t |-> "None", v |-> <<>>]
PyInt(i) == [t |-> "int", v |-> i]
PyStr(s) == [t |-> "str", v |-> s]

\* sep.join(ss)
RECURSIVE join(_, _)
join(sep, ss) ==
    IF ss = <<>> THEN <<>>
    ELSE IF Len(ss) = 1 THEN ss[1]
    ELSE ss[1] \o sep \o join(sep, Tail(ss))

\* the characters str.isspace() accepts, which str.strip() removes
Whitespace ==
    (9..13) \cup (28..32) \cup {133, 160, 5760} \cup (8192..8202)
        \cup {8232, 8233, 8239, 8287, 12288}

RECURSIVE lstrip(_)
lstrip(s) ==
    IF s # <<>> /\ Head(s) \in Whitespace THEN lstrip(Tail(s)) ELSE s

RECURSIVE rstrip(_)
rstrip(s) ==
    IF s # <<>> /\ s[Len(s)] \in Whitespace
    THEN rstrip(SubSeq(s, 1, Len(s) - 1))
    ELSE s

\* str.strip()
strip(s) == rstrip(lstrip(s))

\* str.lower() of one character, on Basic Latin and the Cyrillic block
lower_char(c) ==
    IF c \in 65..90 THEN c + 32
    ELSE IF c \in 1040..1071 THEN c + 32
    ELSE IF c \in 1024..1039 THEN c + 80
    ELSE c

\* str.lower()
lower(s) == [i \in 1..Len(s) |-> lower_char(s[i])]

\* str(n) of a one-digit number, as the f-strings format the week
str_digit(n) == <<48 + n>>

(***************************************************************************)
(* The string literals of bot.py, as code points.                          *)
(***************************************************************************)
\* rasp_command, line 110: "Неизвестный день. Напиши: /rasp пн, /rasp вт, /rasp ср, /rasp чт, /rasp пт, /rasp сб, /rasp вс"
TXT_unknown_day ==
    <<1053, 1077, 1080, 1079, 1074, 1077, 1089, 1090, 1085, 1099, 1081, 32, 1076, 1077, 1085,
    1100, 46, 32, 1053, 1072, 1087, 1080, 1096, 1080, 58, 32, 47, 114, 97, 115, 112, 32, 1087,
    1085, 44, 32, 47, 114, 97, 115, 112, 32, 1074, 1090, 44, 32, 47, 114, 97, 115, 112, 32,
    1089, 1088, 44, 32, 47, 114, 97, 115, 112, 32, 1095, 1090, 44, 32, 47, 114, 97, 115, 112,
    32, 1087, 1090, 44, 32, 47, 114, 97, 115, 112, 32, 1089, 1073, 44, 32, 47, 114, 97, 115,
    112, 32, 1074, 1089>>

\* start, line 37: "Привет, "
TXT_start_hello ==
    <<1055, 1088, 1080, 1074, 1077, 1090, 44, 32>>

\* start, lines 37-38: "!\n\nЯ бот с расписанием. Сейчас выбрана **"
TXT_start_intro ==
    <<33, 10, 10, 1071, 32, 1073, 1086, 1090, 32, 1089, 32, 1088, 1072, 1089, 1087, 1080, 1089,
    1072, 1085, 1080, 1077, 1084, 46, 32, 1057, 1077, 1081, 1095, 1072, 1089, 32, 1074, 1099,
    1073, 1088, 1072, 1085, 1072, 32, 42, 42>>

\* start, lines 38-42: " неделя**.\n\nКоманды:\n/rasp — расписание на сегодня\n/rasp пн, /rasp вт, … — расписание на выбранный день\n/week — выбрать неделю (I или II)"
TXT_start_rest ==
    <<32, 1085, 1077, 1076, 1077, 1083, 1103, 42, 42, 46, 10, 10, 1050, 1086, 1084, 1072, 1085,
    1076, 1099, 58, 10, 47, 114, 97, 115, 112, 32, 8212, 32, 1088, 1072, 1089, 1087, 1080,
    1089, 1072, 1085, 1080, 1077, 32, 1085, 1072, 32, 1089, 1077, 1075, 1086, 1076, 1085, 1103,
    10, 47, 114, 97, 115, 112, 32, 1087, 1085, 44, 32, 47, 114, 97, 115, 112, 32, 1074, 1090,
    44, 32, 8230, 32, 8212, 32, 1088, 1072, 1089, 1087, 1080, 1089, 1072, 1085, 1080, 1077, 32,
    1085, 1072, 32, 1074, 1099, 1073, 1088, 1072, 1085, 1085, 1099, 1081, 32, 1076, 1077, 1085,
    1100, 10, 47, 119, 101, 101, 107, 32, 8212, 32, 1074, 1099, 1073, 1088, 1072, 1090, 1100,
    32, 1085, 1077, 1076, 1077, 1083, 1102, 32, 40, 73, 32, 1080, 1083, 1080, 32, 73, 73, 41>>

\* week_command, line 58: "Сейчас выбрана: **"
TXT_week_current ==
    <<1057, 1077, 1081, 1095, 1072, 1089, 32, 1074, 1099, 1073, 1088, 1072, 1085, 1072, 58, 32,
    42, 42>>

\* week_command, line 58: " неделя**.\nВыбери неделю:"
TXT_week_choose ==
    <<32, 1085, 1077, 1076, 1077, 1083, 1103, 42, 42, 46, 10, 1042, 1099, 1073, 1077, 1088,
    1080, 32, 1085, 1077, 1076, 1077, 1083, 1102, 58>>

\* week_command, line 51: "I неделя"
TXT_button_I ==
    <<73, 32, 1085, 1077, 1076, 1077, 1083, 1103>>

\* week_command, line 52: "II неделя"
TXT_button_II ==
    <<73, 73, 32, 1085, 1077, 1076, 1077, 1083, 1103>>

\* week_command, line 51, and week_callback, line 68: "week_1"
TXT_week_1 ==
    <<119, 101, 101, 107, 95, 49>>

\* week_command, line 52: "week_2"
TXT_week_2 ==
    <<119, 101, 101, 107, 95, 50>>

\* week_callback, line 70: "Выбрана **I неделя**."
TXT_chosen_I ==
    <<1042, 1099, 1073, 1088, 1072, 1085, 1072, 32, 42, 42, 73, 32, 1085, 1077, 1076, 1077,
    1083, 1103, 42, 42, 46>>

\* week_callback, line 73: "Выбрана **II неделя**."
TXT_chosen_II ==
    <<1042, 1099, 1073, 1088, 1072, 1085, 1072, 32, 42, 42, 73, 73, 32, 1085, 1077, 1076, 1077,
    1083, 1103, 42, 42, 46>>

\* help_command, lines 123-127: "/start — приветствие\n/rasp — расписание на **сегодня** (день по реальному времени)\n/rasp пн, /rasp вт, … — расписание на выбранный день\n/week — выбрать неделю (I или II)\n/help — эта справка"
TXT_help ==
    <<47, 115, 116, 97, 114, 116, 32, 8212, 32, 1087, 1088, 1080, 1074, 1077, 1090, 1089, 1090,
    1074, 1080, 1077, 10, 47, 114, 97, 115, 112, 32, 8212, 32, 1088, 1072, 1089, 1087, 1080,
    1089, 1072, 1085, 1080, 1077, 32, 1085, 1072, 32, 42, 42, 1089, 1077, 1075, 1086, 1076,
    1085, 1103, 42, 42, 32, 40, 1076, 1077, 1085, 1100, 32, 1087, 1086, 32, 1088, 1077, 1072,
    1083, 1100, 1085, 1086, 1084, 1091, 32, 1074, 1088, 1077, 1084, 1077, 1085, 1080, 41, 10,
    47, 114, 97, 115, 112, 32, 1087, 1085, 44, 32, 47, 114, 97, 115, 112, 32, 1074, 1090, 44,
    32, 8230, 32, 8212, 32, 1088, 1072, 1089, 1087, 1080, 1089, 1072, 1085, 1080, 1077, 32,
    1085, 1072, 32, 1074, 1099, 1073, 1088, 1072, 1085, 1085, 1099, 1081, 32, 1076, 1077, 1085,
    1100, 10, 47, 119, 101, 101, 107, 32, 8212, 32, 1074, 1099, 1073, 1088, 1072, 1090, 1100,
    32, 1085, 1077, 1076, 1077, 1083, 1102, 32, 40, 73, 32, 1080, 1083, 1080, 32, 73, 73, 41,
    10, 47, 104, 101, 108, 112, 32, 8212, 32, 1101, 1090, 1072, 32, 1089, 1087, 1088, 1072,
    1074, 1082, 1072>>

\* main, line 134: "Ошибка: нужен токен бота."
TXT_no_token_1 ==
    <<1054, 1096, 1080, 1073, 1082, 1072, 58, 32, 1085, 1091, 1078, 1077, 1085, 32, 1090, 1086,
    1082, 1077, 1085, 32, 1073, 1086, 1090, 1072, 46>>

\* main, line 135: "Создай бота у @BotFather в Telegram и задай TELEGRAM_BOT_TOKEN в .env"
TXT_no_token_2 ==
    <<1057, 1086, 1079, 1076, 1072, 1081, 32, 1073, 1086, 1090, 1072, 32, 1091, 32, 64, 66,
    111, 116, 70, 97, 116, 104, 101, 114, 32, 1074, 32, 84, 101, 108, 101, 103, 114, 97, 109,
    32, 1080, 32, 1079, 1072, 1076, 1072, 1081, 32, 84, 69, 76, 69, 71, 82, 65, 77, 95, 66, 79,
    84, 95, 84, 79, 75, 69, 78, 32, 1074, 32, 46, 101, 110, 118>>

\* main, line 146: "Бот запущен. Остановка: Ctrl+C"
TXT_started ==
    <<1041, 1086, 1090, 32, 1079, 1072, 1087, 1091, 1097, 1077, 1085, 46, 32, 1054, 1089, 1090,
    1072, 1085, 1086, 1074, 1082, 1072, 58, 32, 67, 116, 114, 108, 43, 67>>

\* format_day_schedule, line 82: "📅 "
TXT_calendar ==
    <<128197, 32>>

\* format_day_schedule, line 82: " ("
TXT_open_paren ==
    <<32, 40>>

\* format_day_schedule, line 82: "), "
TXT_close_paren ==
    <<41, 44, 32>>

\* format_day_schedule, line 81: "I"
TXT_label_I ==
    <<73>>

\* format_day_schedule, line 81: "II"
TXT_label_II ==
    <<73, 73>>

\* format_day_schedule, line 82: " неделя\n\n"
TXT_week_suffix ==
    <<32, 1085, 1077, 1076, 1077, 1083, 1103, 10, 10>>

\* format_day_schedule, line 84: "Занятий нет."
TXT_no_lessons ==
    <<1047, 1072, 1085, 1103, 1090, 1080, 1081, 32, 1085, 1077, 1090, 46>>

\* format_day_schedule, line 85: "🕐 "
TXT_clock ==
    <<128336, 32>>

\* format_day_schedule, line 85: "\n   "
TXT_lesson_sep ==
    <<10, 32, 32, 32>>

\* format_day_schedule, line 86: "\n\n"
TXT_blank_line ==
    <<10, 10>>

\* main, line 144: the pattern ^week_ without its anchor: "week_"
TXT_week_pattern ==
    <<119, 101, 101, 107, 95>>

(***************************************************************************)
(* schedule_data, the module bot.py imports its data from (line 18).       *)
(***************************************************************************)
\* DAY_NAMES: the full day names, Monday first:
\* "Понедельник", "Вторник", "Среда", "Четверг", "Пятница", "Суббота", "Воскресенье"
DAY_NAMES ==
    << <<1055, 1086, 1085, 1077, 1076, 1077, 1083, 1100, 1085, 1080, 1082>>,
       <<1042, 1090, 1086, 1088, 1085, 1080, 1082>>,
       <<1057, 1088, 1077, 1076, 1072>>,
       <<1063, 1077, 1090, 1074, 1077, 1088, 1075>>,
       <<1055, 1103, 1090, 1085, 1080, 1094, 1072>>,
       <<1057, 1091, 1073, 1073, 1086, 1090, 1072>>,
       <<1042, 1086, 1089, 1082, 1088, 1077, 1089, 1077, 1085, 1100, 1077>> >>

\* DAY_NAMES_SHORT: the short codes: "Пн", "Вт", "Ср", "Чт", "Пт", "Сб", "Вс"
DAY_NAMES_SHORT ==
    << <<1055, 1085>>, <<1042, 1090>>, <<1057, 1088>>, <<1063, 1090>>,
       <<1055, 1090>>, <<1057, 1073>>, <<1042, 1089>> >>

Weeks == {1, 2}
Days == 0..6

\* ScheduleEntry values the store may hold, <<time, subject>>:
\* ("08:30", "Математика"), ("10:15", "Физика"), ("12:00", "Информатика")
Entries ==
    { << <<48, 56, 58, 51, 48>>,
         <<1052, 1072, 1090, 1077, 1084, 1072, 1090, 1080, 1082, 1072>> >>,
      << <<49, 48, 58, 49, 53>>, <<1060, 1080, 1079, 1080, 1082, 1072>> >>,
      << <<49, 50, 58, 48, 48>>,
         <<1048, 1085, 1092, 1086, 1088, 1084, 1072, 1090, 1080, 1082, 1072>> >> }

\* every sequence over S of length at most n
SeqUpTo(S, n) == UNION {[1..k -> S] : k \in 0..n}

\* the DaySchedule values of at most MaxLessons entries
DaySchedules == SeqUpTo(Entries, MaxLessons)

\* a store of two day schedules: a and b alternate over the working days
\* and swap between the weeks; the weekend has no lessons
Table(a, b) ==
    [w \in Weeks |->
        [d \in Days |->
            IF d >= 5 THEN <<>> ELSE IF (w + d) % 2 = 0 THEN a ELSE b]]

\* every store of that shape
Stores == {Table(a, b) : a, b \in DaySchedules}

\* the store the bot is run with: the weeks hold different lessons, Monday of
\* week 1 has MaxLessons of them, Monday of week 2 one, the weekend none
SampleStore ==
    LET one == CHOOSE s \in DaySchedules : Len(s) = 1
        full == CHOOSE s \in DaySchedules : Len(s) = MaxLessons /\ s[1] # s[Len(s)]
    IN  Table(one, full)

\* get_schedule(week, day): the lessons of the slot, empty when it has none
get_schedule(week_num, day) ==
    IF week_num \in DOMAIN schedule /\ day \in DOMAIN schedule[week_num]
    THEN schedule[week_num][day]
    ELSE <<>>

(***************************************************************************)
(* bot.py: configuration and session state.                                *)
(***************************************************************************)
\* BOT_TOKEN = os.environ.get("TELEGRAM_BOT_TOKEN", "")
BOT_TOKEN == IF env = PyNone THEN <<>> ELSE env.v

DEFAULT_WEEK == 1

\* a dict is the set of its <<key, value>> pairs
dict_get(d, key, default) ==
    IF \E p \in d : p[1] = key
    THEN (CHOOSE p \in d : p[1] = key)[2]
    ELSE default

dict_set(d, key, value) == {p \in d : p[1] # key} \cup {<<key, value>>}

\* get_user_week(context), context being that of user u
get_user_week(u) == dict_get(user_data[u], "week", DEFAULT_WEEK)

(***************************************************************************)
(* bot.py: the pure functions.                                             *)
(***************************************************************************)
\* sequence[i] of Python: is the index inside the sequence
py_index_ok(seq, i) == -Len(seq) <= i /\ i < Len(seq)

\* sequence[i] of Python, negative indices counting from the end
py_index(seq, i) == IF i >= 0 THEN seq[i + 1] ELSE seq[Len(seq) + i + 1]

IndexError == [t |-> "IndexError", v |-> <<>>]

\* mutant of week_label: the two labels are swapped
week_label_swapped(week_num) == IF week_num = 1 THEN TXT_label_II ELSE TXT_label_I

\* week_label = "I" if week_num == 1 else "II"
week_label(week_num) == IF week_num = 1 THEN TXT_label_I ELSE TXT_label_II

\* f"🕐 {time}\n   {subject}"
lesson_line(lesson) == TXT_clock \o lesson[1] \o TXT_lesson_sep \o lesson[2]

\* "\n\n".join(lines)
join_lines(lines) == join(TXT_blank_line, lines)

\* format_day_schedule(week_num, day): a str, or the IndexError that
\* DAY_NAMES[day] raises
format_day_schedule(week_num, day) ==
    LET lessons == get_schedule(week_num, day)
    IN  IF ~py_index_ok(DAY_NAMES, day) \/ ~py_index_ok(DAY_NAMES_SHORT, day)
        THEN IndexError
        ELSE
          LET day_name == py_index(DAY_NAMES, day)
              header == TXT_calendar \o day_name \o TXT_open_paren
                            \o py_index(DAY_NAMES_SHORT, day) \o TXT_close_paren
                            \o week_label(week_num) \o TXT_week_suffix
              lines == [i \in 1..Len(lessons) |-> lesson_line(lessons[i])]
          IN  IF lessons = <<>>
              THEN PyStr(header \o TXT_no_lessons)
              ELSE PyStr(header \o join_lines(lines))

\* short = ("пн", "вт", "ср", "чт", "пт", "сб", "вс")
short ==
    << <<1087, 1085>>, <<1074, 1090>>, <<1089, 1088>>, <<1095, 1090>>,
       <<1087, 1090>>, <<1089, 1073>>, <<1074, 1089>> >>

\* mutant of normalize_arg: the argument is stripped and not lowered
normalize_arg_no_lower(arg) ==
    strip(IF arg = PyNone \/ arg.v = <<>> THEN <<>> ELSE arg.v)

\* arg = (arg or "").strip().lower()
normalize_arg(arg) ==
    lower(strip(IF arg = PyNone \/ arg.v = <<>> THEN <<>> ELSE arg.v))

\* for i, name in enumerate(short): if name == arg: return i
RECURSIVE first_match(_, _)
first_match(arg, i) ==
    IF i >= Len(short) THEN PyNone
    ELSE IF short[i + 1] = arg THEN PyInt(i)
    ELSE first_match(arg, i + 1)

\* parse_day_arg(arg): PyInt(0..6) or PyNone
parse_day_arg(arg) == first_match(normalize_arg(arg), 0)

(***************************************************************************)
(* Updates, handlers and the calls a handler makes.                        *)
(***************************************************************************)
UNone == [kind |-> "none", user |-> 0, command |-> "", args |-> <<>>, data |-> <<>>]

\* the message "/<command> <args...>" of user u; args is the text after the
\* command split at whitespace
Message(u, command, args) ==
    [kind |-> "message", user |-> u, command |-> command, args |-> args,
     data |-> <<>>]

\* a press by user u of an inline button carrying data
CallbackQuery(u, data) ==
    [kind |-> "callback_query", user |-> u, command |-> "", args |-> <<>>,
     data |-> data]

CommandHandler(command, callback) ==
    [type |-> "CommandHandler", command |-> command, pattern |-> <<>>,
     callback |-> callback]

CallbackQueryHandler(callback, pattern) ==
    [type |-> "CallbackQueryHandler", command |-> "", pattern |-> pattern,
     callback |-> callback]

\* the app.add_handler calls of main, in order
REGISTRATIONS ==
    << CommandHandler("start", "start"),
       CommandHandler("week", "week_command"),
       CommandHandler("rasp", "rasp_command"),
       CommandHandler("help", "help_command"),
       CallbackQueryHandler("week_callback", TXT_week_pattern) >>

\* re.match("^week_", data): data starts with the pattern's literal
re_match(pattern, data) ==
    Len(data) >= Len(pattern) /\ SubSeq(data, 1, Len(pattern)) = pattern

\* does handler h accept the update
check_update(h, upd) ==
    IF h.type = "CommandHandler"
    THEN upd.kind = "message" /\ upd.command = h.command
    ELSE upd.kind = "callback_query" /\ re_match(h.pattern, upd.data)

\* the callback of the first registered handler that accepts the update,
\* "none" when no handler does
RECURSIVE dispatch_from(_, _)
dispatch_from(upd, i) ==
    IF i > Len(handlers) THEN "none"
    ELSE IF check_update(handlers[i], upd) THEN handlers[i].callback
    ELSE dispatch_from(upd, i + 1)

dispatch(upd) == IF pc = "polling" THEN dispatch_from(upd, 1) ELSE "none"

NoMarkup == <<>>

\* update.message.reply_text(text, reply_markup=..., parse_mode=...)
reply_text(text, reply_markup, parse_mode) ==
    [method |-> "reply_text", text |-> text, reply_markup |-> reply_markup,
     parse_mode |-> parse_mode]

\* query.answer()
answer == [method |-> "answer", text |-> <<>>, reply_markup |-> NoMarkup,
           parse_mode |-> ""]

\* query.edit_message_text(text=..., parse_mode=...)
edit_message_text(text, parse_mode) ==
    [method |-> "edit_message_text", text |-> text, reply_markup |-> NoMarkup,
     parse_mode |-> parse_mode]

InlineKeyboardButton(text, callback_data) ==
    [text |-> text, callback_data |-> callback_data]

\* update.effective_user.first_name: "Аня", "Олег", "Ира", "Лев", ...
first_name(u) ==
    IF u = 1 THEN <<1040, 1085, 1103>>
    ELSE IF u = 2 THEN <<1054, 1083, 1077, 1075>>
    ELSE IF u = 3 THEN <<1048, 1088, 1072>>
    ELSE <<1051, 1077, 1074>>

\* mutant of now_weekday: isoweekday(), Monday = 1 .. Sunday = 7
now_isoweekday == today + 1

\* datetime.now().weekday()
now_weekday == today

(***************************************************************************)
(* The inputs of the model.                                                *)
(***************************************************************************)
\* the environment's token: not set, set and empty, "123:ABC"
Environments == {PyNone, PyStr(<<>>), PyStr(<<49, 50, 51, 58, 65, 66, 67>>)}

\* words after /rasp: the seven tokens, "хд", "ПН"
ArgWords ==
    {short[i] : i \in 1..Len(short)} \cup {<<1093, 1076>>, <<1055, 1053>>}

\* context.args of a /rasp: none, one word, or "ср хд"
RaspArgs ==
    {<<>>} \cup {<<w>> : w \in ArgWords} \cup {<<short[3], <<1093, 1076>> >>}

\* callback data: "week_1", "week_2", "week_3", "other"
CallbackData ==
    {TXT_week_1, TXT_week_2, <<119, 101, 101, 107, 95, 51>>,
     <<111, 116, 104, 101, 114>>}

\* commands no handler is registered for
OtherCommands == {"stop"}

NoCall == [fn |-> "none", week_num |-> 0, day |-> 0, arg |-> PyNone]
Pending == [t |-> "pending", v |-> <<>>]

(***************************************************************************)
(* The bot: main, then one action per handler.                             *)
(***************************************************************************)
Init ==
    /\ env \in Environments
    /\ pc = "main"
    /\ handlers = <<>>
    /\ stdout = <<>>
    /\ schedule = SampleStore
    /\ user_data = [u \in Users |-> {}]
    /\ today \in Days
    /\ update = UNone
    /\ sent = <<>>
    /\ lastPress = [u \in Users |-> PyNone]
    /\ call = NoCall
    /\ result = Pending

\* mutant of main_start: the diagnostic is printed and main goes on
main_start_no_return ==
    /\ pc = "main"
    /\ stdout' = IF BOT_TOKEN = <<>>
                 THEN stdout \o <<TXT_no_token_1, TXT_no_token_2>>
                 ELSE stdout
    /\ pc' = "built"
    /\ UNCHANGED <<env, handlers, schedule, user_data, today, update, sent,
                   lastPress, call, result>>

\* main, lines 133-138: without a token print the diagnostic and return,
\* with one build the application
main_start ==
    /\ pc = "main"
    /\ IF BOT_TOKEN = <<>>
       THEN /\ stdout' = stdout \o <<TXT_no_token_1, TXT_no_token_2>>
            /\ pc' = "returned"
       ELSE /\ stdout' = stdout
            /\ pc' = "built"
    /\ UNCHANGED <<env, handlers, schedule, user_data, today, update, sent,
                   lastPress, call, result>>

\* main, lines 140-144: the next app.add_handler call
add_handler ==
    /\ pc = "built"
    /\ Len(handlers) < Len(REGISTRATIONS)
    /\ handlers' = Append(handlers, REGISTRATIONS[Len(handlers) + 1])
    /\ UNCHANGED <<env, pc, stdout, schedule, user_data, today, update, sent,
                   lastPress, call, result>>

\* main, lines 146-147: print the banner and poll
run_polling ==
    /\ pc = "built"
    /\ Len(handlers) = Len(REGISTRATIONS)
    /\ stdout' = Append(stdout, TXT_started)
    /\ pc' = "polling"
    /\ UNCHANGED <<env, handlers, schedule, user_data, today, update, sent,
                   lastPress, call, result>>

\* the wall clock reaches the next day
Tick ==
    /\ today' = (today + 1) % 7
    /\ UNCHANGED <<env, pc, handlers, stdout, schedule, user_data, update, sent,
                   lastPress, call, result>>

\* mutant of start: the week shown is stored, as setdefault would
start_stores_default ==
    \E u \in Users :
        LET upd == Message(u, "start", <<>>)
            week == get_user_week(u)
        IN  /\ dispatch(upd) = "start"
            /\ update' = upd
            /\ user_data' = [user_data EXCEPT ![u] = dict_set(@, "week", week)]
            /\ sent' = <<reply_text(
                            TXT_start_hello \o first_name(u) \o TXT_start_intro
                                \o str_digit(week) \o TXT_start_rest,
                            NoMarkup, "Markdown")>>
            /\ UNCHANGED <<env, pc, handlers, stdout, schedule, today,
                           lastPress, call, result>>

\* start, lines 32-44
start ==
    \E u \in Users :
        LET upd == Message(u, "start", <<>>)
            week == get_user_week(u)
        IN  /\ dispatch(upd) = "start"
            /\ update' = upd
            /\ sent' = <<reply_text(
                            TXT_start_hello \o first_name(u) \o TXT_start_intro
                                \o str_digit(week) \o TXT_start_rest,
                            NoMarkup, "Markdown")>>
            /\ UNCHANGED <<env, pc, handlers, stdout, schedule, user_data, today,
                           lastPress, call, result>>

\* week_command, lines 47-61
week_command ==
    \E u \in Users :
        LET upd == Message(u, "week", <<>>)
            keyboard == << <<InlineKeyboardButton(TXT_button_I, TXT_week_1),
                             InlineKeyboardButton(TXT_button_II, TXT_week_2)>> >>
            current == get_user_week(u)
        IN  /\ dispatch(upd) = "week_command"
            /\ update' = upd
            /\ sent' = <<reply_text(
                            TXT_week_current \o str_digit(current) \o TXT_week_choose,
                            keyboard, "Markdown")>>
            /\ UNCHANGED <<env, pc, handlers, stdout, schedule, user_data, today,
                           lastPress, call, result>>

\* mutant of week_choice: the week is read off the data's last character
week_choice_digit(data) ==
    LET n == data[Len(data)] - 48
    IN  [week |-> n, text |-> IF n = 1 THEN TXT_chosen_I ELSE TXT_chosen_II]

\* mutant of week_choice: the test is for week_2 and week I is the catch-all
week_choice_strict(data) ==
    IF data = TXT_week_2
    THEN [week |-> 2, text |-> TXT_chosen_II]
    ELSE [week |-> 1, text |-> TXT_chosen_I]

\* the week and the text week_callback settles on for query.data, lines 68-73
week_choice(data) ==
    IF data = TXT_week_1
    THEN [week |-> 1, text |-> TXT_chosen_I]
    ELSE [week |-> 2, text |-> TXT_chosen_II]

\* mutant of week_callback: the week is kept in one dict shared by all users
week_callback_shared ==
    \E u \in Users, data \in CallbackData :
        LET upd == CallbackQuery(u, data)
            choice == week_choice(data)
        IN  /\ dispatch(upd) = "week_callback"
            /\ update' = upd
            /\ user_data' = [v \in Users |->
                                dict_set(user_data[v], "week", choice.week)]
            /\ sent' = <<answer, edit_message_text(choice.text, "Markdown")>>
            /\ lastPress' = [lastPress EXCEPT ![u] = PyStr(data)]
            /\ UNCHANGED <<env, pc, handlers, stdout, schedule, today, call, result>>

\* week_callback, lines 64-74
week_callback ==
    \E u \in Users, data \in CallbackData :
        LET upd == CallbackQuery(u, data)
            choice == week_choice(data)
        IN  /\ dispatch(upd) = "week_callback"
            /\ update' = upd
            /\ user_data' = [user_data EXCEPT
                                ![u] = dict_set(@, "week", choice.week)]
            /\ sent' = <<answer, edit_message_text(choice.text, "Markdown")>>
            /\ lastPress' = [lastPress EXCEPT ![u] = PyStr(data)]
            /\ UNCHANGED <<env, pc, handlers, stdout, schedule, today, call, result>>

\* mutant of rasp_day: an argument that is not recognised means today
rasp_day_or_today(args) ==
    IF args # <<>> /\ parse_day_arg(PyStr(args[1])) # PyNone
    THEN parse_day_arg(PyStr(args[1]))
    ELSE PyInt(today)

\* the day rasp_command answers for, lines 106-115: the parsed first
\* argument, or today's weekday without one
rasp_day(args) ==
    IF args # <<>> THEN parse_day_arg(PyStr(args[1])) ELSE PyInt(now_weekday)

\* mutant of rasp_replies: the week is DEFAULT_WEEK, not the user's
rasp_replies_default_week(u, args) ==
    LET week == DEFAULT_WEEK
        day == rasp_day(args)
    IN  IF day = PyNone
        THEN <<reply_text(TXT_unknown_day, NoMarkup, "")>>
        ELSE LET text == format_day_schedule(week, day.v)
             IN  IF text.t = "str"
                 THEN <<reply_text(text.v, NoMarkup, "")>>
                 ELSE <<>>

\* what rasp_command sends, lines 104-117; nothing when format_day_schedule
\* raises
rasp_replies(u, args) ==
    LET week == get_user_week(u)
        day == rasp_day(args)
    IN  IF day = PyNone
        THEN <<reply_text(TXT_unknown_day, NoMarkup, "")>>
        ELSE LET text == format_day_schedule(week, day.v)
             IN  IF text.t = "str"
                 THEN <<reply_text(text.v, NoMarkup, "")>>
                 ELSE <<>>

\* rasp_command, lines 99-117
rasp_command ==
    \E u \in Users, args \in RaspArgs :
        LET upd == Message(u, "rasp", args)
            replies == rasp_replies(u, args)
        IN  /\ dispatch(upd) = "rasp_command"
            /\ update' = upd
            /\ sent' = replies
            /\ UNCHANGED <<env, pc, handlers, stdout, schedule, user_data, today,
                           lastPress, call, result>>

\* help_command, lines 120-129
help_command ==
    \E u \in Users :
        LET upd == Message(u, "help", <<>>)
        IN  /\ dispatch(upd) = "help_command"
            /\ update' = upd
            /\ sent' = <<reply_text(TXT_help, NoMarkup, "Markdown")>>
            /\ UNCHANGED <<env, pc, handlers, stdout, schedule, user_data, today,
                           lastPress, call, result>>

\* an update no registered handler accepts is dropped
unhandled ==
    \E u \in Users :
        \E upd \in {Message(u, c, <<>>) : c \in OtherCommands}
                      \cup {CallbackQuery(u, d) : d \in CallbackData} :
            /\ pc = "polling"
            /\ dispatch(upd) = "none"
            /\ update' = upd
            /\ sent' = <<>>
            /\ UNCHANGED <<env, pc, handlers, stdout, schedule, user_data, today,
                           lastPress, call, result>>

Next ==
    \/ main_start
    \/ add_handler
    \/ run_polling
    \/ Tick
    \/ start
    \/ week_command
    \/ week_callback
    \/ rasp_command
    \/ help_command
    \/ unhandled

Spec == Init /\ [][Next]_vars

(***************************************************************************)
(* The pure functions on their own: a call is drawn, then it returns.      *)
(***************************************************************************)
\* the characters arguments are built from:
\* п н в т с р ч б, П Н, space, newline
ArgChars == {1087, 1085, 1074, 1090, 1089, 1088, 1095, 1073, 1055, 1053, 32, 10}

\* the arguments of parse_day_arg: None and every string up to MaxArgLen
ParseArgs == {PyNone} \cup {PyStr(s) : s \in SeqUpTo(ArgChars, MaxArgLen)}

\* the bot has not started and stays so
Idle ==
    /\ env = PyNone
    /\ pc = "main"
    /\ handlers = <<>>
    /\ stdout = <<>>
    /\ user_data = [u \in Users |-> {}]
    /\ today = 0
    /\ update = UNone
    /\ sent = <<>>
    /\ lastPress = [u \in Users |-> PyNone]

InitParse ==
    /\ Idle
    /\ schedule = Table(<<>>, <<>>)
    /\ call \in {[fn |-> "parse_day_arg", week_num |-> 0, day |-> 0, arg |-> a] :
                    a \in ParseArgs}
    /\ result = Pending

\* parse_day_arg(call.arg) returns
call_parse_day_arg ==
    /\ call.fn = "parse_day_arg"
    /\ result = Pending
    /\ result' = parse_day_arg(call.arg)
    /\ UNCHANGED <<env, pc, handlers, stdout, schedule, user_data, today, update,
                   sent, lastPress, call>>

NextParse == call_parse_day_arg

SpecParse == InitParse /\ [][NextParse]_vars

InitFormat ==
    /\ Idle
    /\ schedule \in Stores
    /\ call \in {[fn |-> "format_day_schedule", week_num |-> w, day |-> d,
                  arg |-> PyNone] : w \in Weeks, d \in Days}
    /\ result = Pending

\* format_day_schedule(call.week_num, call.day) returns
call_format_day_schedule ==
    /\ call.fn = "format_day_schedule"
    /\ result = Pending
    /\ result' = format_day_schedule(call.week_num, call.day)
    /\ UNCHANGED <<env, pc, handlers, stdout, schedule, user_data, today, update,
                   sent, lastPress, call>>

NextFormat == call_format_day_schedule

SpecFormat == InitFormat /\ [][NextFormat]_vars

(***************************************************************************)
(* What the claims are stated with.                                        *)
(***************************************************************************)
\* sub occurs in s
Contains(s, sub) ==
    \E i \in 1..(Len(s) - Len(sub) + 1) : SubSeq(s, i, i + Len(sub) - 1) = sub

\* c is the letter l of a token, in lower or in upper case (а..я are 32
\* above А..Я)
SameLetter(c, l) == c = l \/ c = l - 32

\* s is the canonical token of day index d, in any letter case, between any
\* whitespace
IsTokenOf(s, d) ==
    \E a \in 1..(Len(s) - 1) :
        /\ \A j \in 1..Len(s) : (j < a \/ j > a + 1) => s[j] \in Whitespace
        /\ SameLetter(s[a], short[d + 1][1])
        /\ SameLetter(s[a + 1], short[d + 1][2])

\* the user's session holds a week
HasWeek(u) == \E p \in user_data[u] : p[1] = "week"

\* the last update is the message /<command> of user u
IsCommand(u, command) ==
    update.kind = "message" /\ update.user = u /\ update.command = command

\* the part of a reply up to and including its first blank line
HeaderOf(text) ==
    LET ends == {i \in 2..Len(text) : text[i - 1] = 10 /\ text[i] = 10}
    IN  IF ends = {} THEN text
        ELSE SubSeq(text, 1, CHOOSE i \in ends : \A j \in ends : i <= j)

\* the part of a reply after its first blank line
BodyOf(text) == SubSeq(text, Len(HeaderOf(text)) + 1, Len(text))

\* the blocks of a day schedule, built from the last entry backwards
RECURSIVE BlocksOf(_)
BlocksOf(lessons) ==
    LET n == Len(lessons)
        block == TXT_clock \o lessons[n][1] \o TXT_lesson_sep \o lessons[n][2]
    IN  IF n = 1 THEN block
        ELSE BlocksOf(SubSeq(lessons, 1, n - 1)) \o TXT_blank_line \o block

\* the week read for a user who never pressed, and for one who pressed week_2
C1_Values ==
    \A u \in Users :
        /\ lastPress[u] = PyNone => get_user_week(u) = 1
        /\ lastPress[u] = PyStr(TXT_week_2) => get_user_week(u) = 2

\* a step that handles a press of another user keeps the week read for u
C1_OthersPress ==
    \A u \in Users :
        (update'.kind = "callback_query" /\ update'.user # u)
            => get_user_week(u)' = get_user_week(u)

(***************************************************************************)
(* C1: get_user_week(u) is 1 while u has never pressed a week button and   *)
(* is 2 after u has pressed the week_2 button; and a button press of a     *)
(* user other than u leaves get_user_week(u) as it was.                    *)
(***************************************************************************)
C1_WeekPerUser == []C1_Values /\ [][C1_OthersPress]_vars

\* user 1 has chosen week 2, user 2 then pressed week_1, and user 1 still
\* has week 2 while user 2 has week 1
C1_Witness ==
    /\ lastPress[1] = PyStr(TXT_week_2)
    /\ update = CallbackQuery(2, TXT_week_1)
    /\ get_user_week(1) = 2
    /\ get_user_week(2) = 1

(***************************************************************************)
(* C2: after a user has chosen week w with a week button, the reply to     *)
(* that user's /rasp <token> for a valid day token of day d is exactly     *)
(* format_day_schedule(w, d), until the user's next press; and after       *)
(* choosing II the reply to /rasp пн is week 2's Monday, not week 1's.     *)
(***************************************************************************)
C2_RaspFollowsChoice ==
    \A u \in Users, w \in Weeks, d \in Days :
        ( /\ IsCommand(u, "rasp")
          /\ update.args # <<>>
          /\ IsTokenOf(update.args[1], d)
          /\ lastPress[u] = PyStr(IF w = 1 THEN TXT_week_1 ELSE TXT_week_2) )
        => /\ sent = <<reply_text(format_day_schedule(w, d).v, NoMarkup, "")>>
           /\ (w = 2 /\ d = 0) => sent[1].text # format_day_schedule(1, 0).v

\* user 1 chose II and then sent /rasp пн
C2_Witness ==
    /\ lastPress[1] = PyStr(TXT_week_2)
    /\ update = Message(1, "rasp", <<short[1]>>)
    /\ Len(sent) = 1
    /\ Contains(sent[1].text, TXT_label_II)

\* upd is a /rasp whose first argument parse_day_arg does not recognise
C3_IsBadRasp(upd) ==
    /\ upd.kind = "message"
    /\ upd.command = "rasp"
    /\ upd.args # <<>>
    /\ parse_day_arg(PyStr(upd.args[1])) = PyNone

\* what was sent for such a /rasp
C3_UsageOnly ==
    C3_IsBadRasp(update) =>
        /\ Len(sent) = 1
        /\ sent[1].method = "reply_text"
        /\ sent[1].text = TXT_unknown_day
        /\ \A i \in 1..Len(short) : Contains(sent[1].text, <<32>> \o short[i])
        /\ ~Contains(sent[1].text, TXT_calendar)
        /\ \A w \in Weeks, d \in Days :
              sent[1].text # format_day_schedule(w, d).v

\* a step that handles such a /rasp keeps every session
C3_SessionKept == C3_IsBadRasp(update') => user_data' = user_data

(***************************************************************************)
(* C3: a /rasp whose first argument parse_day_arg does not recognise is    *)
(* answered by exactly one reply, the usage message that lists the seven   *)
(* tokens, which is no formatted schedule; and handling it leaves the      *)
(* session of every user as it was.                                        *)
(***************************************************************************)
C3_BadToken == []C3_UsageOnly /\ [][C3_SessionKept]_vars

\* /rasp хд of a user whose session holds a week
C3_Witness ==
    /\ update = Message(1, "rasp", << <<1093, 1076>> >>)
    /\ sent # <<>>
    /\ sent[1].text = TXT_unknown_day
    /\ HasWeek(1)

(***************************************************************************)
(* C4: parse_day_arg returns the index 0..6 of a canonical token, in any   *)
(* letter case and between any whitespace, and None for everything else:   *)
(* None itself, the empty string, part of a token, a longer word.          *)
(***************************************************************************)
C4_ParseDayTotal ==
    (call.fn = "parse_day_arg" /\ result # Pending) =>
        /\ result \in {PyNone} \cup {PyInt(d) : d \in Days}
        /\ \A d \in Days :
              result = PyInt(d) <=> (call.arg # PyNone /\ IsTokenOf(call.arg.v, d))

\* " Пн" followed by a newline has been parsed to 0
C4_Witness ==
    /\ call.fn = "parse_day_arg"
    /\ call.arg = PyStr(<<32, 1055, 1085, 10>>)
    /\ result = PyInt(0)

\* a step that handles a bare /rasp sends what /rasp <token of today> sends
C5_Step ==
    \A u \in Users :
        (update' = Message(u, "rasp", <<>>) /\ today' = today)
            => sent' = rasp_replies(u, <<short[today + 1]>>)

(***************************************************************************)
(* C5: a /rasp without an argument handled on weekday d is answered as a   *)
(* /rasp <token of d> of the same user with the same selected week is.     *)
(***************************************************************************)
C5_TodayIsToken == [][C5_Step]_vars

\* user 1, with week 2 chosen, got Wednesday's lessons for a bare /rasp
C5_Witness ==
    /\ update = Message(1, "rasp", <<>>)
    /\ today = 2
    /\ get_user_week(1) = 2
    /\ sent = rasp_replies(1, <<short[3]>>)
    /\ Len(sent) = 1

\* a step changes a session only by handling a press of its user
C6_Step ==
    /\ update'.kind = "message" => user_data' = user_data
    /\ \A u \in Users :
          user_data'[u] # user_data[u]
              => update'.kind = "callback_query" /\ update'.user = u

(***************************************************************************)
(* C6: handling /start, /week, /rasp or /help leaves every user's session  *)
(* as it was, and a week button press changes at most the session of the   *)
(* user who pressed.                                                       *)
(***************************************************************************)
C6_OnlyPressWrites == [][C6_Step]_vars

\* user 2 sent /start after user 1 had stored a week, and holds none
C6_Witness ==
    /\ IsCommand(2, "start")
    /\ HasWeek(1)
    /\ ~HasWeek(2)

(***************************************************************************)
(* C7, as the claim states it, for the user of the last update: every      *)
(* stored week is 1 or 2, and a user who has sent a command or pressed a   *)
(* button has a week set in the session.                                   *)
(***************************************************************************)
C7_Original ==
    /\ \A u \in Users : \A p \in user_data[u] : p[2] \in Weeks
    /\ update.kind # "none" => HasWeek(update.user)

\* what the sessions hold in a state
C7_State ==
    \A u \in Users :
        /\ get_user_week(u) \in Weeks
        /\ HasWeek(u) <=> lastPress[u] # PyNone
        /\ \A p \in user_data[u] : p[1] = "week" /\ p[2] \in Weeks
        /\ Cardinality(user_data[u]) <= 1

\* a step removes no stored week
C7_Kept == \A u \in Users : HasWeek(u) => HasWeek(u)'

(***************************************************************************)
(* C7, amended: get_user_week is 1 or 2 for every user in every state; a   *)
(* session holds a week exactly when its user has pressed a week button    *)
(* (a command reads the default and stores nothing), the stored week is 1  *)
(* or 2, and once stored it is never removed.                              *)
(***************************************************************************)
C7_Amended == []C7_State /\ [][C7_Kept]_vars

\* user 1 pressed a button carrying week_3 and then sent /help
C7_Witness ==
    /\ lastPress[1] = PyStr(<<119, 101, 101, 107, 95, 51>>)
    /\ IsCommand(1, "help")
    /\ HasWeek(1)

\* the header names day d and no other day, and the label of week w only
C8_HeaderNames(header, w, d) ==
    /\ \A e \in Days :
          /\ Contains(header, DAY_NAMES[e + 1]) <=> e = d
          /\ Contains(header, <<40>> \o DAY_NAMES_SHORT[e + 1] \o <<41>>) <=> e = d
    /\ Contains(header, <<32>> \o TXT_label_I \o <<32>>) <=> w = 1
    /\ Contains(header, <<32>> \o TXT_label_II \o <<32>>) <=> w = 2

(***************************************************************************)
(* C8: for week 1, 2 and day 0..6 format_day_schedule returns a string:    *)
(* a header with the full name and the short code of that day and of no    *)
(* other, and the label I for week 1, II for week 2; then "Занятий нет."   *)
(* for a day without lessons, else one block of time and subject per       *)
(* entry, in the store's order, with blank lines between.                  *)
(***************************************************************************)
C8_FormatDay ==
    (call.fn = "format_day_schedule" /\ result # Pending) =>
        /\ result.t = "str"
        /\ C8_HeaderNames(HeaderOf(result.v), call.week_num, call.day)
        /\ BodyOf(result.v) =
              IF get_schedule(call.week_num, call.day) = <<>>
              THEN TXT_no_lessons
              ELSE BlocksOf(get_schedule(call.week_num, call.day))

\* a Tuesday of week 2 with two different lessons has been formatted
C8_Witness ==
    /\ call.fn = "format_day_schedule"
    /\ call.week_num = 2
    /\ call.day = 1
    /\ Len(get_schedule(2, 1)) = 2
    /\ get_schedule(2, 1)[1] # get_schedule(2, 1)[2]
    /\ result.t = "str"
    /\ Contains(result.v, TXT_blank_line \o TXT_clock)

(***************************************************************************)
(* C9: without a token (not set, or empty) main prints the diagnostic and  *)
(* returns: no handler is registered, polling never starts, no update is   *)
(* handled and no session is written.  With a token, polling starts only   *)
(* after all five handlers are registered.                                 *)
(***************************************************************************)
C9_TokenGate ==
    /\ BOT_TOKEN = <<>> =>
          /\ pc \in {"main", "returned"}
          /\ pc = "returned" => stdout = <<TXT_no_token_1, TXT_no_token_2>>
          /\ handlers = <<>>
          /\ update = UNone
          /\ sent = <<>>
          /\ \A u \in Users : user_data[u] = {}
    /\ pc = "returned" => BOT_TOKEN = <<>>
    /\ pc = "polling" =>
          /\ BOT_TOKEN # <<>>
          /\ {handlers[i].callback : i \in 1..Len(handlers)} =
                {"start", "week_command", "rasp_command", "help_command",
                 "week_callback"}
    /\ update # UNone => pc = "polling"

\* main has returned for a token that is set and empty
C9_Witness ==
    /\ env = PyStr(<<>>)
    /\ pc = "returned"
    /\ stdout # <<>>

(***************************************************************************)
(* C10: a user's week is 1 when the user has pressed no week button or the *)
(* last handled press carried week_1, and 2 when it carried anything else  *)
(* the handler is given, week_3 as well as week_2; the confirmation of a   *)
(* press names the week that the press stored; data that does not start    *)
(* with week_ is not handled.                                              *)
(***************************************************************************)
C10_LastPressWins ==
    /\ \A u \in Users :
          /\ get_user_week(u) =
                IF lastPress[u] = PyNone \/ lastPress[u] = PyStr(TXT_week_1)
                THEN 1 ELSE 2
          /\ lastPress[u] # PyNone => re_match(TXT_week_pattern, lastPress[u].v)
    /\ update.kind = "callback_query" =>
          IF re_match(TXT_week_pattern, update.data)
          THEN /\ lastPress[update.user] = PyStr(update.data)
               /\ Len(sent) = 2
               /\ sent[2].method = "edit_message_text"
               /\ sent[2].text =
                     IF get_user_week(update.user) = 1
                     THEN TXT_chosen_I ELSE TXT_chosen_II
          ELSE sent = <<>>

\* user 1 pressed a button carrying week_3 and was told week II is chosen
C10_Witness ==
    /\ update = CallbackQuery(1, <<119, 101, 101, 107, 95, 51>>)
    /\ get_user_week(1) = 2
    /\ sent # <<>>
    /\ sent[Len(sent)].text = TXT_chosen_II

====
